---- MODULE Spec2Model ----
(***************************************************************************)
(* A model of the web scraping API: the sliding-window rate limiter and   *)
(* the URL safety check of middleware.py, the Flask views of app.py and   *)
(* the extractors of scraper/web_scraper.py.                               *)
(*                                                                         *)
(* Each component has a specification of its own (SpecLimiter, ...); the  *)
(* variables of the other components keep their initial value in it.      *)
(***************************************************************************)
EXTENDS Integers, Sequences, FiniteSets, TLC

VARIABLES
    now,            \* the value time.time() returns (seconds)
    requests,       \* RateLimiter.requests: identifier -> deque of timestamps
    blocked_ips,    \* RateLimiter.blocked_ips: identifier -> block-until time
    limit,          \* the limit argument the callers of is_allowed pass
    calls,          \* the calls of is_allowed made so far, with their results
    threads,        \* per server thread: where its call of is_allowed stands
    parts,          \* the components a client builds its URL from
    url,            \* the URL string is_safe_url is given
    verdict,        \* what is_safe_url returned for url
    page,           \* the page the web server holds, as segments
    fetches,        \* the calls of session.get made
    response,       \* what the network answered to the last fetch
    result,         \* what the scrape function returned
    examined,       \* the elements handed to extract_product_info
    scraped,        \* which scrape function has run
    before_request_funcs,   \* the hooks installed on the Flask app
    history         \* the requests the app has answered, with their replies

limiterVars == <<now, requests, blocked_ips, limit, calls>>

allLimiterVars == <<limiterVars, threads>>

urlVars == <<parts, url, verdict>>

scrapeVars == <<page, fetches, response, result, examined, scraped>>

appVars == <<before_request_funcs, history>>

vars == <<allLimiterVars, urlVars, scrapeVars, appVars>>

\* What a step of one component leaves alone: the other components.
LimiterOnly == UNCHANGED <<urlVars, scrapeVars, appVars>>
UrlOnly == UNCHANGED <<allLimiterVars, scrapeVars, appVars>>
ScrapeOnly == UNCHANGED <<allLimiterVars, urlVars, appVars>>
AppOnly == UNCHANGED <<now, limit, calls, threads, urlVars, before_request_funcs>>

(***************************************************************************)
(* Bounds of the model.                                                    *)
(***************************************************************************)
MaxLimit == 2
MaxCalls == 4
TimeStep == 1200
MaxTime == 7200
MaxThreadCalls == 3

Identifiers == {"ip1", "ip2"}
Limits == 1..MaxLimit
Windows == {TimeStep, 4 * TimeStep}
Threads == {"th1", "th2"}

(***************************************************************************)
(* RateLimiter (middleware.py)                                             *)
(***************************************************************************)
BlockDuration == 3600
DefaultLimit == 100
DefaultWindow == 3600

\* self.requests[identifier] of a defaultdict(deque): a missing key reads empty
History(reqs, id) == IF id \in DOMAIN reqs THEN reqs[id] ELSE <<>>

\* d[k] = v on a dict
Put(d, k, v) == [x \in DOMAIN d \cup {k} |-> IF x = k THEN v ELSE d[x]]

\* del d[k]
Del(d, k) == [x \in DOMAIN d \ {k} |-> d[x]]

\* while requests[id] and now - requests[id][0] > window: popleft()
Evict_Never(h, t, window) == h

RECURSIVE Evict_AtWindow(_, _, _)
Evict_AtWindow(h, t, window) ==
    IF h # <<>> /\ t - Head(h) >= window THEN Evict_AtWindow(Tail(h), t, window) ELSE h

RECURSIVE Evict(_, _, _)
Evict(h, t, window) ==
    IF h # <<>> /\ t - Head(h) > window THEN Evict(Tail(h), t, window) ELSE h

\* now < self.blocked_ips[identifier]
StillBlocked_Inclusive(t, until) == t <= until
StillBlocked(t, until) == t < until

\* len(self.requests[identifier]) >= limit
LimitReached_OffByOne(h, lim) == Len(h) > lim
LimitReached(h, lim) == Len(h) >= lim

\* now + 3600
BlockUntil_Minute(t) == t + 60
BlockUntil(t) == t + BlockDuration

\* is_allowed as it would be if a call during a block cleaned the history up
\* and renewed the block.
is_allowed_BlockRenewed(id, lim, window, t, reqs, blk) ==
    LET h == Evict(History(reqs, id), t, window)
    IN  IF id \in DOMAIN blk /\ StillBlocked(t, blk[id])
        THEN [ok |-> FALSE, why |-> "blocked",
              requests |-> Put(reqs, id, h),
              blocked_ips |-> Put(blk, id, BlockUntil(t))]
        ELSE IF LimitReached(h, lim)
             THEN [ok |-> FALSE, why |-> "limit",
                   requests |-> Put(reqs, id, h),
                   blocked_ips |-> Put(blk, id, BlockUntil(t))]
             ELSE [ok |-> TRUE, why |-> "allowed",
                   requests |-> Put(reqs, id, Append(h, t)),
                   blocked_ips |-> Del(blk, id)]

\* One call is_allowed(id, lim, window) at time t on the state (reqs, blk):
\* the result and the state it leaves.
is_allowed(id, lim, window, t, reqs, blk) ==
    IF id \in DOMAIN blk /\ StillBlocked(t, blk[id])
    THEN [ok |-> FALSE, why |-> "blocked", requests |-> reqs, blocked_ips |-> blk]
    ELSE LET blk1 == Del(blk, id)
             h == Evict(History(reqs, id), t, window)
         IN  IF LimitReached(h, lim)
             THEN [ok |-> FALSE, why |-> "limit",
                   requests |-> Put(reqs, id, h),
                   blocked_ips |-> Put(blk1, id, BlockUntil(t))]
             ELSE [ok |-> TRUE, why |-> "allowed",
                   requests |-> Put(reqs, id, Append(h, t)),
                   blocked_ips |-> blk1]

Idle == [pc |-> "idle", id |-> "", window |-> 0, t |-> 0]

InitLimiter ==
    /\ now = 0
    /\ requests = <<>>
    /\ blocked_ips = <<>>
    /\ limit \in Limits
    /\ calls = <<>>
    /\ threads = [th \in Threads |-> Idle]

\* A caller runs is_allowed(id, limit, window) to its end.
IsAllowedCall(id, window) ==
    /\ Len(calls) < MaxCalls
    /\ LET r == is_allowed(id, limit, window, now, requests, blocked_ips)
       IN  /\ requests' = r.requests
           /\ blocked_ips' = r.blocked_ips
           /\ calls' = Append(calls, [id |-> id, t |-> now, limit |-> limit,
                                      window |-> window, ok |-> r.ok, why |-> r.why])
    /\ UNCHANGED <<now, limit, threads>>
    /\ LimiterOnly

\* The clock advances between two calls.
Tick ==
    /\ now + TimeStep <= MaxTime
    /\ now' = now + TimeStep
    /\ UNCHANGED <<requests, blocked_ips, limit, calls, threads>>
    /\ LimiterOnly

NextLimiter ==
    \/ \E id \in Identifiers, window \in Windows : IsAllowedCall(id, window)
    \/ Tick

(***************************************************************************)
(* RateLimiter under callers that never stop (SpecCalling).                *)
(*                                                                         *)
(* Only the latest call of each identifier is kept in calls, and the clock *)
(* runs up to MaxLiveTime.                                                 *)
(***************************************************************************)
MaxLiveTime == 12000

\* The identifiers that keep calling (histories and blocks are per identifier).
Callers == {"ip1"}

\* A caller runs is_allowed(id, limit, window) to its end, once more.
CallOnceMore(id, window) ==
    /\ LET r == is_allowed(id, limit, window, now, requests, blocked_ips)
       IN  /\ requests' = r.requests
           /\ blocked_ips' = r.blocked_ips
           /\ calls' = Append(SelectSeq(calls, LAMBDA c : c.id # id),
                              [id |-> id, t |-> now, limit |-> limit,
                               window |-> window, ok |-> r.ok, why |-> r.why])
    /\ UNCHANGED <<now, limit, threads>>
    /\ LimiterOnly

\* The clock advances between two calls.
TimePasses ==
    /\ now + TimeStep <= MaxLiveTime
    /\ now' = now + TimeStep
    /\ UNCHANGED <<requests, blocked_ips, limit, calls, threads>>
    /\ LimiterOnly

NextCalling ==
    \/ \E id \in Callers, window \in Windows : CallOnceMore(id, window)
    \/ TimePasses

\* Time keeps advancing and every identifier keeps calling.
KeepsGoing ==
    /\ WF_vars(TimePasses)
    /\ \A id \in Callers : WF_vars(\E window \in Windows : CallOnceMore(id, window))

(***************************************************************************)
(* RateLimiter called from several server threads (SpecThreads).           *)
(*                                                                         *)
(* RateLimiter holds no lock: the threads of the server interleave between *)
(* the operations on the dict and the deques, each of which is atomic.     *)
(***************************************************************************)
Goto(th, pc) == threads' = [threads EXCEPT ![th].pc = pc]

\* The call of thread th returns (or raises): it is recorded and th is idle.
Return(th, ok, why) ==
    /\ calls' = Append(calls, [id |-> threads[th].id, t |-> threads[th].t,
                               limit |-> limit, window |-> threads[th].window,
                               ok |-> ok, why |-> why])
    /\ threads' = [threads EXCEPT ![th] = Idle]

Running == {th \in Threads : threads[th].pc # "idle"}

\* now = time.time()
Start(th, id, window) ==
    /\ threads[th].pc = "idle"
    /\ Len(calls) + Cardinality(Running) < MaxThreadCalls
    /\ threads' = [threads EXCEPT ![th] =
                      [pc |-> "check_blocked", id |-> id, window |-> window, t |-> now]]
    /\ UNCHANGED limiterVars
    /\ LimiterOnly

\* if identifier in self.blocked_ips:
CheckBlocked(th) ==
    /\ threads[th].pc = "check_blocked"
    /\ IF threads[th].id \in DOMAIN blocked_ips
       THEN Goto(th, "read_block")
       ELSE Goto(th, "evict_test")
    /\ UNCHANGED limiterVars
    /\ LimiterOnly

\* if now < self.blocked_ips[identifier]: return False
ReadBlock(th) ==
    /\ threads[th].pc = "read_block"
    /\ IF threads[th].id \notin DOMAIN blocked_ips
       THEN Return(th, FALSE, "KeyError")
       ELSE IF StillBlocked(threads[th].t, blocked_ips[threads[th].id])
            THEN Return(th, FALSE, "blocked")
            ELSE Goto(th, "del_block") /\ UNCHANGED calls
    /\ UNCHANGED <<now, requests, blocked_ips, limit>>
    /\ LimiterOnly

\* del self.blocked_ips[identifier]
DelBlock(th) ==
    /\ threads[th].pc = "del_block"
    /\ IF threads[th].id \notin DOMAIN blocked_ips
       THEN Return(th, FALSE, "KeyError") /\ UNCHANGED blocked_ips
       ELSE /\ blocked_ips' = Del(blocked_ips, threads[th].id)
            /\ Goto(th, "evict_test")
            /\ UNCHANGED calls
    /\ UNCHANGED <<now, requests, limit>>
    /\ LimiterOnly

\* while (self.requests[identifier] and ...: the read creates a missing key
EvictTest(th) ==
    /\ threads[th].pc = "evict_test"
    /\ requests' = Put(requests, threads[th].id, History(requests, threads[th].id))
    /\ IF History(requests, threads[th].id) # <<>>
       THEN Goto(th, "evict_head")
       ELSE Goto(th, "check_limit")
    /\ UNCHANGED <<now, blocked_ips, limit, calls>>
    /\ LimiterOnly

\* ... now - self.requests[identifier][0] > window):
EvictHead(th) ==
    /\ threads[th].pc = "evict_head"
    /\ LET h == History(requests, threads[th].id) IN
       IF h = <<>>
       THEN Return(th, FALSE, "IndexError")
       ELSE IF threads[th].t - Head(h) > threads[th].window
            THEN Goto(th, "popleft") /\ UNCHANGED calls
            ELSE Goto(th, "check_limit") /\ UNCHANGED calls
    /\ UNCHANGED <<now, requests, blocked_ips, limit>>
    /\ LimiterOnly

\* self.requests[identifier].popleft()
PopLeft(th) ==
    /\ threads[th].pc = "popleft"
    /\ LET h == History(requests, threads[th].id) IN
       IF h = <<>>
       THEN Return(th, FALSE, "IndexError") /\ UNCHANGED requests
       ELSE /\ requests' = Put(requests, threads[th].id, Tail(h))
            /\ Goto(th, "evict_test")
            /\ UNCHANGED calls
    /\ UNCHANGED <<now, blocked_ips, limit>>
    /\ LimiterOnly

\* if len(self.requests[identifier]) >= limit:
CheckLimit(th) ==
    /\ threads[th].pc = "check_limit"
    /\ IF LimitReached(History(requests, threads[th].id), limit)
       THEN Goto(th, "set_block")
       ELSE Goto(th, "append")
    /\ UNCHANGED limiterVars
    /\ LimiterOnly

\* self.blocked_ips[identifier] = now + 3600; return False
SetBlock(th) ==
    /\ threads[th].pc = "set_block"
    /\ blocked_ips' = Put(blocked_ips, threads[th].id, BlockUntil(threads[th].t))
    /\ Return(th, FALSE, "limit")
    /\ UNCHANGED <<now, requests, limit>>
    /\ LimiterOnly

\* self.requests[identifier].append(now); return True
AppendNow(th) ==
    /\ threads[th].pc = "append"
    /\ requests' = Put(requests, threads[th].id,
                       Append(History(requests, threads[th].id), threads[th].t))
    /\ Return(th, TRUE, "allowed")
    /\ UNCHANGED <<now, blocked_ips, limit>>
    /\ LimiterOnly

NextThreads ==
    \/ \E th \in Threads, id \in Identifiers, window \in Windows : Start(th, id, window)
    \/ \E th \in Threads : CheckBlocked(th)
    \/ \E th \in Threads : ReadBlock(th)
    \/ \E th \in Threads : DelBlock(th)
    \/ \E th \in Threads : EvictTest(th)
    \/ \E th \in Threads : EvictHead(th)
    \/ \E th \in Threads : PopLeft(th)
    \/ \E th \in Threads : CheckLimit(th)
    \/ \E th \in Threads : SetBlock(th)
    \/ \E th \in Threads : AppendNow(th)
    \/ Tick

\* The limiter as constructed, called with the defaults of is_allowed.
LimiterConstructed ==
    /\ now = 0
    /\ requests = <<>>
    /\ blocked_ips = <<>>
    /\ limit = DefaultLimit
    /\ calls = <<>>
    /\ threads = [th \in Threads |-> Idle]

(***************************************************************************)
(* The strings of the program and of the model's inputs.                   *)
(***************************************************************************)
HTTP == <<"h", "t", "t", "p">>
HTTPS == <<"h", "t", "t", "p", "s">>
FTP == <<"f", "t", "p">>
MALWARE_COM == <<"m", "a", "l", "w", "a", "r", "e", ".", "c", "o", "m">>
PHISHING_NET == <<"p", "h", "i", "s", "h", "i", "n", "g", ".", "n", "e", "t">>
SPAM_ORG == <<"s", "p", "a", "m", ".", "o", "r", "g">>
ADMIN == <<"a", "d", "m", "i", "n">>
LOGIN == <<"l", "o", "g", "i", "n">>
PASSWORD == <<"p", "a", "s", "s", "w", "o", "r", "d">>
SECRET == <<"s", "e", "c", "r", "e", "t">>
PRIVATE == <<"p", "r", "i", "v", "a", "t", "e">>
HTTPS_UPPER == <<"H", "T", "T", "P", "S">>
USER == <<"u", "s", "e", "r">>
EXAMPLE_COM == <<"e", "x", "a", "m", "p", "l", "e", ".", "c", "o", "m">>
SPAM_ORG_MIXED == <<"S", "p", "a", "m", ".", "O", "R", "G">>
PORT_80 == <<"8", "0">>
PATH_PAGE == <<"/", "p", "a", "g", "e">>
PATH_ADMIN_X == <<"/", "a", "d", "m", "i", "n", "/", "x">>
PATH_A_LOGIN == <<"/", "a", "/", "L", "o", "g", "i", "n">>
PATH_PAGE_PARAMS == <<"/", "p", "a", "g", "e", ";", "v", "=", "1">>
INVALID_URL == <<"i", "n", "v", "a", "l", "i", "d", "-", "u", "r", "l">>
QUERY_PRIVATE == <<"n", "e", "x", "t", "=", "p", "r", "i", "v", "a", "t", "e">>

(***************************************************************************)
(* Strings are sequences of characters, so that lower(), find(), the `in`  *)
(* of two strings and slicing are computed as Python computes them.        *)
(***************************************************************************)
Lowers == <<"a", "b", "c", "d", "e", "f", "g", "h", "i", "j", "k", "l", "m", "n", "o", "p", "q", "r", "s", "t", "u", "v", "w", "x", "y", "z">>
Uppers == <<"A", "B", "C", "D", "E", "F", "G", "H", "I", "J", "K", "L", "M", "N", "O", "P", "Q", "R", "S", "T", "U", "V", "W", "X", "Y", "Z">>
DigitChars == {"0", "1", "2", "3", "4", "5", "6", "7", "8", "9"}

IsAlpha(c) == \E i \in 1..Len(Lowers) : c = Lowers[i] \/ c = Uppers[i]

\* str.lower(), one character
LowerChar(c) ==
    IF \E i \in 1..Len(Uppers) : c = Uppers[i]
    THEN Lowers[CHOOSE i \in 1..Len(Uppers) : c = Uppers[i]]
    ELSE c

\* str.lower()
Lower(s) == [i \in 1..Len(s) |-> LowerChar(s[i])]

\* s.find(c, start), counted from 1: the first place of c at or after start,
\* and 0 (Python's -1) when there is none
Find(s, c, start) ==
    IF \E i \in start..Len(s) : s[i] = c
    THEN CHOOSE i \in start..Len(s) : s[i] = c /\ \A j \in start..(i - 1) : s[j] # c
    ELSE 0

\* s.rfind(c)
RFind(s, c) ==
    IF \E i \in 1..Len(s) : s[i] = c
    THEN CHOOSE i \in 1..Len(s) : s[i] = c /\ \A j \in (i + 1)..Len(s) : s[j] # c
    ELSE 0

\* sub in s
IsSubstring(sub, s) ==
    \E i \in 1..(Len(s) - Len(sub) + 1) : SubSeq(s, i, i + Len(sub) - 1) = sub

\* s[i:], counted from 1
From(s, i) == SubSeq(s, i, Len(s))

(***************************************************************************)
(* urllib.parse.urlparse, as middleware.py and app.py use it.  The URLs of *)
(* the model hold no blanks, control characters or brackets, so lstrip,    *)
(* the removal of tabs and newlines and the IPv6 checks change nothing.    *)
(***************************************************************************)
SchemeChars == {Lowers[i] : i \in 1..Len(Lowers)} \cup {Uppers[i] : i \in 1..Len(Uppers)}
                   \cup DigitChars \cup {"+", "-", "."}

\* schemes of urllib.parse.uses_params that the model's URLs can carry
UsesParams == {<<>>, FTP, HTTP, HTTPS}

\* _splitnetloc(url, 2): the end of the domain part, the first of / ? #
NetlocEnd(s) ==
    LET ends == {Find(s, c, 3) : c \in {"/", "?", "#"}} \ {0}
    IN  IF ends = {} THEN Len(s) + 1
        ELSE CHOOSE e \in ends : \A f \in ends : e <= f

\* _splitparams(url): the path without the parameters of its last segment
ParamsAt(s) ==
    IF Find(s, "/", 1) # 0 THEN Find(s, ";", RFind(s, "/")) ELSE Find(s, ";", 1)

\* urlsplit, step by step; each step hands on what it has split off and
\* the rest of the url.

\* url[:i] is a scheme: i is the place of the first ":"
HasScheme(u, i) ==
    /\ i > 1
    /\ IsAlpha(u[1])
    /\ \A k \in 1..(i - 1) : u[k] \in SchemeChars

\* scheme, url = url[:i].lower(), url[i+1:]
SplitScheme(u, i) ==
    IF HasScheme(u, i) THEN <<Lower(SubSeq(u, 1, i - 1)), From(u, i + 1)>> ELSE <<<<>>, u>>

\* if url[:2] == '//': netloc, url = _splitnetloc(url, 2)
CutNetloc(s, e) == <<SubSeq(s, 3, e - 1), From(s, e)>>

SplitNetloc(s) ==
    IF Len(s) >= 2 /\ s[1] = "/" /\ s[2] = "/" THEN CutNetloc(s, NetlocEnd(s))
    ELSE <<<<>>, s>>

\* url, rest = url.split(c, 1): i is the place of the first c, 0 for none
SplitAt(s, i) == IF i # 0 THEN <<SubSeq(s, 1, i - 1), From(s, i + 1)>> ELSE <<s, <<>>>>

SplitOn(s, c) == SplitAt(s, Find(s, c, 1))

\* _splitparams(url): the path and the parameters of its last segment
SplitParams(s) == SplitAt(s, ParamsAt(s))

\* urlparse: if scheme in uses_params and ';' in url: url, params = _splitparams(url)
SplitPath(scheme, s) ==
    IF scheme \in UsesParams /\ Find(s, ";", 1) # 0 THEN SplitParams(s) ELSE <<s, <<>>>>

ParsePath(scheme, netloc, query, fragment, pp) ==
    [scheme |-> scheme, netloc |-> netloc, path |-> pp[1], params |-> pp[2],
     query |-> query, fragment |-> fragment]

ParseQuery(scheme, netloc, fragment, pq) ==
    ParsePath(scheme, netloc, pq[2], fragment, SplitPath(scheme, pq[1]))

ParseFragment(scheme, netloc, uf) ==
    ParseQuery(scheme, netloc, uf[2], SplitOn(uf[1], "?"))

ParseNetloc(scheme, nu) == ParseFragment(scheme, nu[1], SplitOn(nu[2], "#"))

ParseScheme(su) == ParseNetloc(su[1], SplitNetloc(su[2]))

\* urlparse(url): scheme, netloc, path, params, query and fragment
UrlParse(u) == ParseScheme(SplitScheme(u, Find(u, ":", 1)))

\* urlsplit raises ValueError("Invalid IPv6 URL") for a netloc with one of
\* "[" and "]" and not the other.
BracketsMismatch(netloc) ==
    (\E k \in 1..Len(netloc) : netloc[k] = "[") # (\E k \in 1..Len(netloc) : netloc[k] = "]")

ParseRaises(u) == BracketsMismatch(UrlParse(u).netloc)

(***************************************************************************)
(* SecurityMiddleware.is_safe_url (middleware.py)                          *)
(***************************************************************************)
suspicious_domains == {MALWARE_COM, PHISHING_NET, SPAM_ORG}

suspicious_patterns == {ADMIN, LOGIN, PASSWORD, SECRET, PRIVATE}

\* domain = parsed.netloc
DomainOf(parsed) == parsed.netloc

\* is_safe_url(url) for a string url
is_safe_url(u) ==
    LET parsed == UrlParse(Lower(u))
        domain == DomainOf(parsed)
        path == Lower(parsed.path)
    IN  IF ParseRaises(Lower(u)) THEN FALSE    \* except Exception: return False
        ELSE IF domain \in suspicious_domains THEN FALSE
        ELSE IF \E pattern \in suspicious_patterns : IsSubstring(pattern, path) THEN FALSE
        ELSE IF parsed.scheme \notin {HTTP, HTTPS} THEN FALSE
        ELSE TRUE

(***************************************************************************)
(* The URLs the clients send: built from their components, and sent as a   *)
(* string.                                                                 *)
(***************************************************************************)
UrlSchemes == {<<>>, HTTP, HTTPS_UPPER, FTP}
UrlUsers == {<<>>, USER}
UrlHosts == {<<>>, EXAMPLE_COM, MALWARE_COM, SPAM_ORG_MIXED}
UrlPorts == {<<>>, PORT_80}
UrlPaths == {<<>>, PATH_PAGE, PATH_ADMIN_X, PATH_A_LOGIN, PATH_PAGE_PARAMS, INVALID_URL}
UrlQueries == {<<>>, QUERY_PRIVATE}

\* A host of <<>> is a URL without the // authority part.
UrlParts ==
    {p \in [scheme : UrlSchemes, user : UrlUsers, host : UrlHosts,
            port : UrlPorts, path : UrlPaths, query : UrlQueries] :
        /\ p.host = <<>> => (p.user = <<>> /\ p.port = <<>>)
        /\ (p.path # <<>> /\ p.path[1] # "/") => p.host = <<>>}

FormatUrl(p) ==
    (IF p.scheme # <<>> THEN p.scheme \o <<":">> ELSE <<>>)
    \o (IF p.host # <<>>
        THEN <<"/", "/">>
             \o (IF p.user # <<>> THEN p.user \o <<"@">> ELSE <<>>)
             \o p.host
             \o (IF p.port # <<>> THEN <<":">> \o p.port ELSE <<>>)
        ELSE <<>>)
    \o p.path
    \o (IF p.query # <<>> THEN <<"?">> \o p.query ELSE <<>>)

NoParts == [scheme |-> <<>>, user |-> <<>>, host |-> <<>>, port |-> <<>>,
            path |-> <<>>, query |-> <<>>]

InitUrl ==
    /\ parts \in UrlParts
    /\ url = FormatUrl(parts)
    /\ verdict = "unchecked"

\* The middleware checks the URL of a request.
CheckUrl ==
    /\ verdict = "unchecked"
    /\ verdict' = IF is_safe_url(url) THEN "safe" ELSE "unsafe"
    /\ UNCHANGED <<parts, url>>
    /\ UrlOnly

NextUrl == CheckUrl

\* No URL is being checked.
UrlUnused ==
    /\ parts = NoParts
    /\ url = <<>>
    /\ verdict = "unchecked"

(***************************************************************************)
(* urllib.parse.urljoin, for references without dot segments, empty        *)
(* segments and parameters (the references of the model's documents).      *)
(***************************************************************************)
UsesRelative == {<<>>, FTP, HTTP, HTTPS}
UsesNetloc == {<<>>, FTP, HTTP, HTTPS}

\* urlunparse((scheme, netloc, path, params, query, fragment))
WithParams(path, params) == IF params # <<>> THEN path \o <<";">> \o params ELSE path

UrlUnsplit(scheme, netloc, path, query, fragment) ==
    LET u1 == IF \/ netloc # <<>>
                 \/ /\ scheme # <<>>
                    /\ scheme \in UsesNetloc
                    /\ ~(Len(path) >= 2 /\ path[1] = "/" /\ path[2] = "/")
              THEN <<"/", "/">> \o netloc
                   \o (IF path # <<>> /\ path[1] # "/" THEN <<"/">> \o path ELSE path)
              ELSE path
        u2 == IF scheme # <<>> THEN scheme \o <<":">> \o u1 ELSE u1
        u3 == IF query # <<>> THEN u2 \o <<"?">> \o query ELSE u2
    IN  IF fragment # <<>> THEN u3 \o <<"#">> \o fragment ELSE u3

UrlUnparse(scheme, netloc, path, params, query, fragment) ==
    UrlUnsplit(scheme, netloc, WithParams(path, params), query, fragment)

\* urljoin(base, ref), b and r being base and ref parsed.  The paths joined
\* here have no "." or ".." segment and no empty one, so the segments of the
\* joined path are those of the base but its last, then those of ref.
JoinParsed(base, ref, b, r, scheme) ==
    IF scheme # b.scheme \/ scheme \notin UsesRelative THEN ref
    ELSE IF r.netloc # <<>>
         THEN UrlUnparse(scheme, r.netloc, r.path, r.params, r.query, r.fragment)
    ELSE IF r.path = <<>> /\ r.params = <<>>
         THEN UrlUnparse(scheme, b.netloc, b.path, b.params,
                         IF r.query = <<>> THEN b.query ELSE r.query, r.fragment)
    ELSE UrlUnparse(scheme, b.netloc,
                    IF r.path # <<>> /\ r.path[1] = "/" THEN r.path
                    ELSE SubSeq(b.path, 1, RFind(b.path, "/")) \o r.path,
                    r.params, r.query, r.fragment)

\* The scheme of a reference: urlparse(url, bscheme) gives the base's to a
\* reference that has none.
SchemeOr(r, b) == IF r.scheme = <<>> THEN b.scheme ELSE r.scheme

JoinSchemes(base, ref, b, r) == JoinParsed(base, ref, b, r, SchemeOr(r, b))

UrlJoin(base, ref) ==
    IF base = <<>> THEN ref
    ELSE IF ref = <<>> THEN base
    ELSE JoinSchemes(base, ref, UrlParse(base), UrlParse(ref))

\* urljoin(base, ref) raises the ValueError of urlparse.
JoinRaises(base, ref) ==
    base # <<>> /\ ref # <<>> /\ (ParseRaises(base) \/ ParseRaises(ref))

(***************************************************************************)
(* The parsed document (BeautifulSoup): its elements in document order,    *)
(* each with its tag, its class tokens, its id, its other attributes, its  *)
(* own text and its depth in the tree.  The elements below element i are   *)
(* the ones that follow it for as long as they are deeper than it.         *)
(***************************************************************************)
Node(tag, class, id, attrs, text, depth) ==
    [tag |-> tag, class |-> class, id |-> id, attrs |-> attrs, text |-> text,
     depth |-> depth]

NoAttrs == <<>>

\* The last element of the subtree of element i, scanning on from j.
RECURSIVE SubtreeEndFrom(_, _, _)
SubtreeEndFrom(doc, i, j) ==
    IF j + 1 <= Len(doc) /\ doc[j + 1].depth > doc[i].depth
    THEN SubtreeEndFrom(doc, i, j + 1)
    ELSE j

SubtreeEnd(doc, i) == SubtreeEndFrom(doc, i, i)

Descendants(doc, i) == (i + 1)..SubtreeEnd(doc, i)

Ancestors(doc, j) ==
    {i \in 1..(j - 1) : doc[i].depth < doc[j].depth /\ j <= SubtreeEnd(doc, i)}

\* " ".join(tokens): the value of a class attribute
RECURSIVE JoinClass(_)
JoinClass(tokens) ==
    IF tokens = <<>> THEN <<>>
    ELSE IF Len(tokens) = 1 THEN tokens[1]
    ELSE tokens[1] \o <<" ">> \o JoinClass(Tail(tokens))

HasAttr(n, a) ==
    IF a = "class" THEN n.class # <<>>
    ELSE IF a = "id" THEN n.id # <<>>
    ELSE a \in DOMAIN n.attrs

\* tag.get(a, ""): the value of an attribute, "" when the element has none
AttrValue(n, a) ==
    IF a = "class" THEN JoinClass(n.class)
    ELSE IF a = "id" THEN n.id
    ELSE IF a \in DOMAIN n.attrs THEN n.attrs[a]
    ELSE <<>>

\* The smallest member of a set of positions.
Min(S) == CHOOSE x \in S : \A y \in S : x <= y

\* The positions from..to that satisfy Test, in order.
Positions(from, to, Test(_)) ==
    SelectSeq([k \in 1..(IF to < from THEN 0 ELSE to - from + 1) |-> from + k - 1], Test)

\* tag.get_text(): the text of the element and of the elements below it
RECURSIVE ConcatTexts(_, _, _)
ConcatTexts(doc, from, to) ==
    IF from > to THEN <<>> ELSE doc[from].text \o ConcatTexts(doc, from + 1, to)

GetText(doc, i) == ConcatTexts(doc, i, SubtreeEnd(doc, i))

WhiteSpace == {" ", "\n", "\t"}

\* str.strip()
RECURSIVE LStrip(_)
LStrip(s) == IF s # <<>> /\ Head(s) \in WhiteSpace THEN LStrip(Tail(s)) ELSE s

RECURSIVE RStrip(_)
RStrip(s) ==
    IF s # <<>> /\ s[Len(s)] \in WhiteSpace THEN RStrip(SubSeq(s, 1, Len(s) - 1)) ELSE s

Strip(s) == RStrip(LStrip(s))

(***************************************************************************)
(* CSS selectors (soupsieve): a selector is a sequence of compound         *)
(* selectors joined by the descendant combinator; a compound selector is   *)
(* a tag ("" for any) and a set of conditions on attributes.               *)
(***************************************************************************)
Compound(tag, conds) == [tag |-> tag, conds |-> conds]
AttrHas(a) == <<"has", a, <<>>>>                \* [a]
AttrContains(a, v) == <<"contains", a, v>>      \* [a*="v"]
ClassIs(c) == <<"class", "class", c>>           \* .c

CondHolds(n, cond) ==
    IF cond[1] = "has" THEN HasAttr(n, cond[2])
    ELSE IF cond[1] = "contains"
         THEN HasAttr(n, cond[2]) /\ IsSubstring(cond[3], AttrValue(n, cond[2]))
    ELSE \E k \in 1..Len(n.class) : n.class[k] = cond[3]

MatchesCompound(n, c) ==
    /\ c.tag = "" \/ n.tag = c.tag
    /\ \A cond \in c.conds : CondHolds(n, cond)

\* Element j matches the selector: its last compound holds of j, and each
\* earlier compound of an element above the one matched before.
RECURSIVE MatchesSelector(_, _, _)
MatchesSelector(doc, j, sel) ==
    /\ MatchesCompound(doc[j], sel[Len(sel)])
    /\ \/ Len(sel) = 1
       \/ \E i \in Ancestors(doc, j) : MatchesSelector(doc, i, SubSeq(sel, 1, Len(sel) - 1))

\* soup.select(selector): the matching elements in document order
Select(doc, sel) ==
    Positions(1, Len(doc), LAMBDA j : MatchesSelector(doc, j, sel))

\* element.select_one(selector): the first matching element below the
\* element, 0 for None
RECURSIVE FirstMatch(_, _, _, _)
FirstMatch(doc, from, to, sel) ==
    IF from > to THEN 0
    ELSE IF MatchesSelector(doc, from, sel) THEN from
    ELSE FirstMatch(doc, from + 1, to, sel)

SelectOne(doc, i, sel) == FirstMatch(doc, i + 1, SubtreeEnd(doc, i), sel)

(***************************************************************************)
(* The strings of web_scraper.py.  A character that is not ASCII is named: *)
(* "euro", "pound", "yen", "rupee" and "i-acute" are one character each.  *)
(***************************************************************************)
S_PRODUCT == <<"p", "r", "o", "d", "u", "c", "t">>
S_ITEM == <<"i", "t", "e", "m">>
S_TITLE == <<"t", "i", "t", "l", "e">>
S_NAME == <<"n", "a", "m", "e">>
S_PRODUCT_NAME == <<"p", "r", "o", "d", "u", "c", "t", "-", "n", "a", "m", "e">>
S_PRODUCT_TITLE == <<"p", "r", "o", "d", "u", "c", "t", "-", "t", "i", "t", "l", "e">>
S_PRICE == <<"p", "r", "i", "c", "e">>
S_COST == <<"c", "o", "s", "t">>
S_AMOUNT == <<"a", "m", "o", "u", "n", "t">>
S_PRODUCT_PRICE == <<"p", "r", "o", "d", "u", "c", "t", "-", "p", "r", "i", "c", "e">>
S_IMAGE == <<"i", "m", "a", "g", "e">>
S_IMG == <<"i", "m", "g">>
S_PRODUCT_IMAGE == <<"p", "r", "o", "d", "u", "c", "t", "-", "i", "m", "a", "g", "e">>
S_THUMB == <<"t", "h", "u", "m", "b">>
S_LINK == <<"l", "i", "n", "k">>
S_PRODUCT_LINK == <<"p", "r", "o", "d", "u", "c", "t", "-", "l", "i", "n", "k">>
S_DESCRIPTION == <<"d", "e", "s", "c", "r", "i", "p", "t", "i", "o", "n">>
SEM_TITULO == <<"S", "e", "m", " ", "t", "i-acute", "t", "u", "l", "o">>
NO_DESCRIPTION == <<"N", "o", " ", "d", "e", "s", "c", "r", "i", "p", "t", "i", "o", "n">>

(***************************************************************************)
(* WebScraper.extract_product_info (web_scraper.py)                        *)
(***************************************************************************)
One(cond) == <<Compound("", {cond})>>
Tag(t) == <<Compound(t, {})>>
Under(cond, tag, conds) == <<Compound("", {cond}), Compound(tag, conds)>>

name_selectors ==
    << Tag("h1"), Tag("h2"), Tag("h3"),
       One(AttrContains("class", S_TITLE)), One(AttrContains("class", S_NAME)),
       One(AttrContains("class", S_PRODUCT_NAME)), One(AttrContains("class", S_PRODUCT_TITLE)),
       One(AttrContains("id", S_TITLE)), One(AttrContains("id", S_NAME)),
       One(AttrContains("id", S_PRODUCT_NAME)), One(AttrContains("id", S_PRODUCT_TITLE)) >>

price_selectors ==
    << One(AttrContains("class", S_PRICE)), One(AttrContains("id", S_PRICE)),
       One(AttrHas("data-price")),
       One(AttrContains("class", S_COST)), One(AttrContains("id", S_COST)),
       One(AttrContains("class", S_AMOUNT)), One(AttrContains("id", S_AMOUNT)),
       One(ClassIs(S_PRODUCT_PRICE)), One(ClassIs(S_PRICE)), One(ClassIs(S_COST)),
       One(ClassIs(S_AMOUNT)) >>

image_selectors ==
    << Tag("img"),
       Under(AttrContains("class", S_IMAGE), "img", {}),
       Under(AttrContains("class", S_IMG), "img", {}),
       Under(AttrContains("class", S_PRODUCT_IMAGE), "img", {}),
       Under(AttrContains("class", S_THUMB), "img", {}),
       One(AttrHas("data-src")), One(AttrHas("data-original")) >>

link_selectors ==
    << <<Compound("a", {AttrHas("href")})>>,
       Under(AttrContains("class", S_LINK), "a", {AttrHas("href")}),
       Under(AttrContains("class", S_PRODUCT_LINK), "a", {AttrHas("href")}),
       Under(AttrContains("class", S_TITLE), "a", {AttrHas("href")}),
       Under(AttrContains("class", S_NAME), "a", {AttrHas("href")}) >>

\* re.search(r'([A-Za-z]{0,3}\$|euro|pound|yen|rupee)\s*[\d.,]+', text)
CurrencySigns == {"euro", "pound", "yen", "rupee"}
AmountChars == DigitChars \cup {".", ","}

\* The end of the longest run of characters of a set that starts at i
\* (i - 1 when s[i] is not of the set).
RECURSIVE RunEnd(_, _, _)
RunEnd(s, i, set) ==
    IF i <= Len(s) /\ s[i] \in set THEN RunEnd(s, i + 1, set) ELSE i - 1

\* \s*[\d.,]+ matched from i on: the end of the match, 0 when it fails
AmountEnd(s, i) ==
    LET d == RunEnd(s, i, WhiteSpace) + 1
        e == RunEnd(s, d, AmountChars)
    IN  IF e >= d THEN e ELSE 0

\* The pattern matched from i on: the end of the match, 0 when it fails.
\* [A-Za-z]{0,3} takes as many letters as it can and gives them back one by
\* one; the other signs are tried after it.
MatchEndAt(s, i) ==
    LET ks == {k \in 0..3 :
                  /\ i + k <= Len(s)
                  /\ \A j \in 0..(k - 1) : IsAlpha(s[i + j])
                  /\ s[i + k] = "$"
                  /\ AmountEnd(s, i + k + 1) # 0}
    IN  IF ks # {}
        THEN AmountEnd(s, i + (CHOOSE k \in ks : \A l \in ks : l <= k) + 1)
        ELSE IF i <= Len(s) /\ s[i] \in CurrencySigns
             THEN AmountEnd(s, i + 1)
             ELSE 0

\* price_match: the leftmost match, and whether there is one
PriceSearch(s) ==
    LET starts == {i \in 1..Len(s) : MatchEndAt(s, i) # 0}
    IN  IF starts = {} THEN [found |-> FALSE, text |-> <<>>]
        ELSE [found |-> TRUE, text |-> SubSeq(s, Min(starts), MatchEndAt(s, Min(starts)))]

\* for selector in name_selectors: ... if name_elem: name = ...; break
RECURSIVE FindName(_, _, _)
FindName(doc, i, sels) ==
    IF sels = <<>> THEN <<>>
    ELSE LET e == SelectOne(doc, i, Head(sels))
         IN  IF e # 0 THEN Strip(GetText(doc, e))
             ELSE FindName(doc, i, Tail(sels))

\* for selector in price_selectors: ... if price_match: price = ...; break
RECURSIVE FindPrice_FirstElementOnly(_, _, _)
FindPrice_FirstElementOnly(doc, i, sels) ==
    IF sels = <<>> THEN <<>>
    ELSE LET e == SelectOne(doc, i, Head(sels))
         IN  IF e # 0 THEN PriceSearch(Strip(GetText(doc, e))).text
             ELSE FindPrice_FirstElementOnly(doc, i, Tail(sels))

RECURSIVE FindPrice(_, _, _)
FindPrice(doc, i, sels) ==
    IF sels = <<>> THEN <<>>
    ELSE LET e == SelectOne(doc, i, Head(sels))
         IN  IF e # 0 /\ PriceSearch(Strip(GetText(doc, e))).found
             THEN PriceSearch(Strip(GetText(doc, e))).text
             ELSE FindPrice(doc, i, Tail(sels))

\* img_elem.get('src') or img_elem.get('data-src') or img_elem.get('data-original')
ImageSource(n) ==
    IF AttrValue(n, "src") # <<>> THEN AttrValue(n, "src")
    ELSE IF AttrValue(n, "data-src") # <<>> THEN AttrValue(n, "data-src")
    ELSE AttrValue(n, "data-original")

\* for selector in image_selectors: ... if src: image = urljoin(...); break
RECURSIVE FindImage(_, _, _, _)
FindImage(doc, i, sels, base_url) ==
    IF sels = <<>> THEN <<>>
    ELSE LET e == SelectOne(doc, i, Head(sels))
         IN  IF e # 0 /\ ImageSource(doc[e]) # <<>>
             THEN UrlJoin(base_url, ImageSource(doc[e]))
             ELSE FindImage(doc, i, Tail(sels), base_url)

\* for selector in link_selectors: ... if link_elem: link = urljoin(...); break
RECURSIVE FindLink(_, _, _, _)
FindLink(doc, i, sels, base_url) ==
    IF sels = <<>> THEN <<>>
    ELSE LET e == SelectOne(doc, i, Head(sels))
         IN  IF e # 0 THEN UrlJoin(base_url, AttrValue(doc[e], "href"))
             ELSE FindLink(doc, i, Tail(sels), base_url)

\* The src that the image loop hands to urljoin, "" when it finds none.
RECURSIVE ImageRef(_, _, _)
ImageRef(doc, i, sels) ==
    IF sels = <<>> THEN <<>>
    ELSE LET e == SelectOne(doc, i, Head(sels))
         IN  IF e # 0 /\ ImageSource(doc[e]) # <<>> THEN ImageSource(doc[e])
             ELSE ImageRef(doc, i, Tail(sels))

\* The href that the link loop hands to urljoin, "" when it finds none.
RECURSIVE LinkRef(_, _, _)
LinkRef(doc, i, sels) ==
    IF sels = <<>> THEN <<>>
    ELSE LET e == SelectOne(doc, i, Head(sels))
         IN  IF e # 0 THEN AttrValue(doc[e], "href")
             ELSE LinkRef(doc, i, Tail(sels))

\* The try block of extract_product_info raises: except Exception logs the
\* error and the function returns None.
ExtractRaises(doc, i, base_url) ==
    \/ JoinRaises(base_url, ImageRef(doc, i, image_selectors))
    \/ JoinRaises(base_url, LinkRef(doc, i, link_selectors))

NoProduct == [none |-> TRUE]

\* if name: return {...}; return None
KeepProduct_Always(name) == TRUE
KeepProduct(name) == name # <<>>

\* extract_product_info(element, base_url) for element i of the document
extract_product_info(doc, i, base_url) ==
    LET name == FindName(doc, i, name_selectors)
    IN  IF KeepProduct(name) /\ ~ExtractRaises(doc, i, base_url)
        THEN [name |-> name,
              price |-> FindPrice(doc, i, price_selectors),
              image |-> FindImage(doc, i, image_selectors, base_url),
              link |-> FindLink(doc, i, link_selectors, base_url)]
        ELSE NoProduct

(***************************************************************************)
(* The fetch: self.session.get(url, timeout=30), response.raise_for_status *)
(***************************************************************************)
MaxImages == 10
MaxLinks == 20
MaxProducts == 10

\* What the network can answer: no connection, no answer in time, or a
\* response with a status and a body (requests follows redirects, so a 3xx
\* response is one without a Location to follow).
HttpStatuses == {200, 304, 404, 503}

Responses ==
    {[kind |-> "ConnectionError", status |-> 0], [kind |-> "Timeout", status |-> 0]}
    \cup {[kind |-> "response", status |-> s] : s \in HttpStatuses}

\* response.raise_for_status() raises HTTPError
RaisesForStatus(status) == 400 <= status /\ status < 600

\* The try block raises a requests.exceptions.RequestException.
FetchRaises(resp) == resp.kind # "response" \/ RaisesForStatus(resp.status)

\* str(e)
ErrorMessage(resp) ==
    IF resp.kind = "response" THEN <<"HTTPError", resp.status>> ELSE <<resp.kind>>

\* datetime.now().isoformat()
IsoFormat(t) == <<"isoformat", t>>

\* s[:n]
Take_All(s, n) == s
Take(s, n) == SubSeq(s, 1, IF Len(s) < n THEN Len(s) ELSE n)

\* the except branch of both scrape functions
ErrorResult(u, resp, t) ==
    [url |-> u, error |-> ErrorMessage(resp), status |-> "error",
     scraped_at |-> IsoFormat(t)]

(***************************************************************************)
(* WebScraper.scrape_page_info                                             *)
(***************************************************************************)
MapSeq(idx, F(_)) == [k \in 1..Len(idx) |-> F(idx[k])]

\* soup.find('title')
PageTitle(doc) ==
    LET found == Positions(1, Len(doc), LAMBDA j : doc[j].tag = "title")
    IN  IF found # <<>> THEN Strip(GetText(doc, found[1])) ELSE SEM_TITULO

\* soup.find('meta', attrs={'name': 'description'})
PageDescription(doc) ==
    LET found == Positions(1, Len(doc), LAMBDA j :
                     doc[j].tag = "meta" /\ HasAttr(doc[j], "name")
                                         /\ AttrValue(doc[j], "name") = S_DESCRIPTION)
    IN  IF found # <<>> THEN Strip(AttrValue(doc[found[1]], "content")) ELSE NO_DESCRIPTION

\* for img in soup.find_all('img', src=True)
PageImages(doc, u) ==
    MapSeq(Positions(1, Len(doc), LAMBDA j : doc[j].tag = "img" /\ HasAttr(doc[j], "src")),
           LAMBDA j : [url |-> UrlJoin(u, AttrValue(doc[j], "src")),
                       alt |-> AttrValue(doc[j], "alt"),
                       title |-> AttrValue(doc[j], "title")])

\* for link in soup.find_all('a', href=True)
PageLinks(doc, u) ==
    MapSeq(Positions(1, Len(doc), LAMBDA j : doc[j].tag = "a" /\ HasAttr(doc[j], "href")),
           LAMBDA j : [url |-> UrlJoin(u, AttrValue(doc[j], "href")),
                       text |-> Strip(GetText(doc, j)),
                       title |-> AttrValue(doc[j], "title")])

HeadingTags == <<"h1", "h2", "h3", "h4", "h5", "h6">>

\* The level of a heading tag.
LevelOf(tag) == CHOOSE l \in 1..6 : HeadingTags[l] = tag

PageHeadings_DocumentOrder(doc, level) ==
    MapSeq(Positions(1, Len(doc), LAMBDA j : \E l \in 1..6 : doc[j].tag = HeadingTags[l]),
           LAMBDA j : [level |-> LevelOf(doc[j].tag), text |-> Strip(GetText(doc, j))])

\* for i in range(1, 7): for heading in soup.find_all(f'h{i}')
RECURSIVE PageHeadings(_, _)
PageHeadings(doc, level) ==
    IF level > 6 THEN <<>>
    ELSE MapSeq(Positions(1, Len(doc), LAMBDA j : doc[j].tag = HeadingTags[level]),
                LAMBDA j : [level |-> level, text |-> Strip(GetText(doc, j))])
         \o PageHeadings(doc, level + 1)

\* An exception that is not a RequestException leaves the function.
Raised(exception) == [status |-> "raised", exception |-> exception]

\* urljoin raises in the image loop or in the link loop.
PageRaises(doc, u) ==
    \E j \in 1..Len(doc) :
        \/ doc[j].tag = "img" /\ HasAttr(doc[j], "src")
                              /\ JoinRaises(u, AttrValue(doc[j], "src"))
        \/ doc[j].tag = "a" /\ HasAttr(doc[j], "href")
                            /\ JoinRaises(u, AttrValue(doc[j], "href"))

\* scrape_page_info(url) when the network answers resp, with body doc, at time t
scrape_page_info(u, resp, doc, t) ==
    IF FetchRaises(resp) THEN ErrorResult(u, resp, t)
    ELSE IF PageRaises(doc, u) THEN Raised("ValueError")
    ELSE [url |-> u,
          title |-> PageTitle(doc),
          description |-> PageDescription(doc),
          images |-> Take(PageImages(doc, u), MaxImages),
          links |-> Take(PageLinks(doc, u), MaxLinks),
          headings |-> PageHeadings(doc, 1),
          scraped_at |-> IsoFormat(t),
          status |-> "success"]

(***************************************************************************)
(* WebScraper.scrape_products_generic                                      *)
(***************************************************************************)
product_selectors ==
    << One(AttrContains("class", S_PRODUCT)), One(AttrContains("id", S_PRODUCT)),
       One(AttrHas("data-product-id")), One(ClassIs(S_ITEM)) >>

\* for element in product_elements[:10]: ... if product: products.append(product)
RECURSIVE ExtractEach(_, _, _)
ExtractEach(doc, elements, base_url) ==
    IF elements = <<>> THEN <<>>
    ELSE LET product == extract_product_info(doc, Head(elements), base_url)
         IN  (IF product # NoProduct THEN <<product>> ELSE <<>>)
             \o ExtractEach(doc, Tail(elements), base_url)

\* for selector in product_selectors: ... if product_elements: ...; break
\* The products, and the elements handed to extract_product_info.
RECURSIVE ProductLoop_NoBreak(_, _, _)
ProductLoop_NoBreak(doc, sels, base_url) ==
    IF sels = <<>> THEN [products |-> <<>>, examined |-> <<>>]
    ELSE LET elements == Take(Select(doc, Head(sels)), MaxProducts)
             rest == ProductLoop_NoBreak(doc, Tail(sels), base_url)
         IN  [products |-> ExtractEach(doc, elements, base_url) \o rest.products,
              examined |-> elements \o rest.examined]

RECURSIVE ProductLoop(_, _, _)
ProductLoop(doc, sels, base_url) ==
    IF sels = <<>> THEN [products |-> <<>>, examined |-> <<>>]
    ELSE LET product_elements == Select(doc, Head(sels))
         IN  IF product_elements # <<>>
             THEN [products |-> ExtractEach(doc, Take(product_elements, MaxProducts), base_url),
                   examined |-> Take(product_elements, MaxProducts)]
             ELSE ProductLoop(doc, Tail(sels), base_url)

\* scrape_products_generic(url) when the network answers resp, with body doc, at time t
scrape_products_generic(u, resp, doc, t) ==
    IF FetchRaises(resp) THEN ErrorResult(u, resp, t)
    ELSE LET products == ProductLoop(doc, product_selectors, u).products
         IN  [url |-> u,
              products |-> products,
              total_found |-> Len(products),
              scraped_at |-> IsoFormat(t),
              status |-> "success"]

(***************************************************************************)
(* The documents of the model: a page is a sequence of segments, each a    *)
(* fragment of markup repeated a number of times.                          *)
(***************************************************************************)
\* a product with name, price, image and link (test_extract_product_info)
CardFragment ==
    << Node("div", <<<<"p", "r", "o", "d", "u", "c", "t">>>>, <<>>, NoAttrs, <<>>, 0),
       Node("h2", <<>>, <<>>, NoAttrs, <<"T", "e", "s", "t", " ", "P", "r", "o", "d", "u", "c", "t">>, 1),
       Node("span", <<<<"p", "r", "i", "c", "e">>>>, <<>>, NoAttrs, <<"R", "$", " ", "9", "9", ",", "9", "0">>, 1),
       Node("img", <<>>, <<>>, ("src" :> <<"/", "p", "r", "o", "d", "u", "c", "t", ".", "j", "p", "g">>) @@ ("alt" :> <<"P", "r", "o", "d", "u", "c", "t">>), <<>>, 1),
       Node("a", <<>>, <<>>, ("href" :> <<"/", "p", "r", "o", "d", "u", "c", "t", "/", "1", "2", "3">>), <<"V", "i", "e", "w", " ", "P", "r", "o", "d", "u", "c", "t">>, 1) >>

\* a product whose heading carries a product class itself, and whose first price element holds no amount
TitledFragment ==
    << Node("div", <<<<"p", "r", "o", "d", "u", "c", "t", "-", "c", "a", "r", "d">>, <<"b", "o", "x">>>>, <<>>, NoAttrs, <<>>, 0),
       Node("h3", <<<<"p", "r", "o", "d", "u", "c", "t", "-", "t", "i", "t", "l", "e">>>>, <<>>, NoAttrs, <<" ", "T", "V", "\n">>, 1),
       Node("span", <<<<"p", "r", "i", "c", "e">>>>, <<>>, NoAttrs, <<"N", "/", "A">>, 1),
       Node("span", <<<<"c", "o", "s", "t">>>>, <<>>, NoAttrs, <<"f", "r", "o", "m", " ", "$", "5", ".">>, 1),
       Node("div", <<<<"t", "h", "u", "m", "b">>>>, <<>>, NoAttrs, <<>>, 1),
       Node("img", <<>>, <<>>, ("data-src" :> <<"t", "v", ".", "p", "n", "g">>), <<>>, 2) >>

\* a product without a name
NamelessFragment ==
    << Node("div", <<<<"p", "r", "o", "d", "u", "c", "t">>>>, <<>>, NoAttrs, <<>>, 0),
       Node("span", <<<<"p", "r", "i", "c", "e">>>>, <<>>, NoAttrs, <<"euro", " ", "1", "2", ".", "5", "0">>, 1) >>

\* an .item with a name
ItemFragment ==
    << Node("li", <<<<"i", "t", "e", "m">>>>, <<>>, NoAttrs, <<>>, 0),
       Node("h3", <<>>, <<>>, NoAttrs, <<"I", "t", "e", "m">>, 1),
       Node("a", <<<<"l", "i", "n", "k">>>>, <<>>, ("href" :> <<"i", "t", "e", "m", ".", "h", "t", "m", "l">>), <<"m", "o", "r", "e">>, 1) >>

\* an element with a product id, named by a class
DataFragment ==
    << Node("div", <<>>, <<>>, ("data-product-id" :> <<"7">>), <<>>, 0),
       Node("span", <<<<"n", "a", "m", "e">>>>, <<>>, NoAttrs, <<"G", "a", "d", "g", "e", "t">>, 1),
       Node("span", <<>>, <<"p", "r", "i", "c", "e">>, NoAttrs, <<"c", "a", "l", "l", " ", "u", "s">>, 1),
       Node("b", <<>>, <<>>, ("data-price" :> <<"7">>), <<"U", "S", "D", "$", " ", "7">>, 1) >>

\* an element whose first heading is empty
EmptyHeadingFragment ==
    << Node("section", <<>>, <<"p", "r", "o", "d", "u", "c", "t", "-", "l", "i", "s", "t">>, NoAttrs, <<>>, 0),
       Node("h1", <<>>, <<>>, NoAttrs, <<" ">>, 1),
       Node("h2", <<>>, <<>>, NoAttrs, <<"H", "i", "d", "d", "e", "n">>, 1) >>

\* title, description, headings, images and links of a page
HeadFragment ==
    << Node("title", <<>>, <<>>, NoAttrs, <<" ", "M", "y", " ", "P", "a", "g", "e", " ">>, 0),
       Node("meta", <<>>, <<>>, ("name" :> <<"d", "e", "s", "c", "r", "i", "p", "t", "i", "o", "n">>) @@ ("content" :> <<" ", "A", " ", "p", "a", "g", "e", " ">>), <<>>, 0),
       Node("h2", <<>>, <<>>, NoAttrs, <<"S", "u", "b">>, 0),
       Node("h1", <<>>, <<>>, NoAttrs, <<"M", "a", "i", "n">>, 0),
       Node("img", <<>>, <<>>, ("src" :> <<"/", "a", ".", "p", "n", "g">>) @@ ("title" :> <<"A">>), <<>>, 0),
       Node("img", <<>>, <<>>, ("alt" :> <<"n", "o", " ", "s", "o", "u", "r", "c", "e">>), <<>>, 0),
       Node("a", <<>>, <<>>, ("href" :> <<"/", "x", "?", "y", "=", "1">>), <<" ", "X", " ">>, 0),
       Node("a", <<>>, <<>>, NoAttrs, <<"a", "n", "c", "h", "o", "r">>, 0) >>

\* a paragraph with a link and an image
LinkFragment ==
    << Node("p", <<>>, <<>>, NoAttrs, <<"h", "e", "l", "l", "o">>, 0),
       Node("a", <<>>, <<>>, ("href" :> <<"h", "t", "t", "p", "s", ":", "/", "/", "o", "t", "h", "e", "r", ".", "o", "r", "g", "/", "p">>), <<>>, 1),
       Node("img", <<>>, <<>>, ("src" :> <<>>), <<>>, 2) >>

\* a named product whose link is a reference that urljoin rejects
BrokenFragment ==
    << Node("div", <<<<"p", "r", "o", "d", "u", "c", "t">>>>, <<>>, NoAttrs, <<>>, 0),
       Node("h2", <<>>, <<>>, NoAttrs, <<"B", "r", "o", "k", "e", "n">>, 1),
       Node("a", <<>>, <<>>, ("href" :> <<"/", "/", "[">>), <<"x">>, 1) >>

Fragments ==
    {BrokenFragment,
     CardFragment,
     TitledFragment,
     NamelessFragment,
     ItemFragment,
     DataFragment,
     EmptyHeadingFragment,
     HeadFragment,
     LinkFragment}

MaxSegments == 2

\* Once, and often enough to pass each limit of the scraper.
Counts == {1, MaxProducts + 1, MaxLinks + 1}

Segments == [fragment : Fragments, count : Counts]

RECURSIVE SeqsUpTo(_, _)
SeqsUpTo(S, n) ==
    IF n = 0 THEN {<<>>}
    ELSE SeqsUpTo(S, n - 1)
         \cup {Append(s, x) : s \in {t \in SeqsUpTo(S, n - 1) : Len(t) = n - 1}, x \in S}

Pages == SeqsUpTo(Segments, MaxSegments)

RECURSIVE Repeat(_, _)
Repeat(fragment, n) == IF n = 0 THEN <<>> ELSE fragment \o Repeat(fragment, n - 1)

\* The document of a page: response.content as BeautifulSoup parses it.
RECURSIVE Document(_)
Document(p) ==
    IF p = <<>> THEN <<>>
    ELSE Repeat(Head(p).fragment, Head(p).count) \o Document(Tail(p))

BASE_URL == <<"h", "t", "t", "p", "s", ":", "/", "/", "e", "x", "a", "m", "p", "l", "e", ".", "c", "o", "m", "/", "s", "h", "o", "p", "/", "l", "i", "s", "t">>

(***************************************************************************)
(* Calls of the scraper (SpecScrape): a page is served, the network        *)
(* answers, one of the two functions runs to its end.                      *)
(***************************************************************************)
NoResult == [status |-> "none"]

InitScrape ==
    /\ page \in Pages
    /\ fetches = 0
    /\ response = [kind |-> "none", status |-> 0]
    /\ result = NoResult
    /\ examined = <<>>
    /\ scraped = "none"

\* What a call of scrape_page_info(u) does when the network answers resp.
CallPageInfo(u, resp) ==
    /\ fetches' = fetches + 1
    /\ response' = resp
    /\ result' = scrape_page_info(u, resp, Document(page), now)
    /\ examined' = <<>>
    /\ scraped' = "page_info"
    /\ UNCHANGED page

\* What a call of scrape_products_generic(u) does when the network answers
\* resp.
CallProducts(u, resp) ==
    /\ fetches' = fetches + 1
    /\ response' = resp
    /\ result' = scrape_products_generic(u, resp, Document(page), now)
    /\ examined' = IF FetchRaises(resp) THEN <<>>
                   ELSE ProductLoop(Document(page), product_selectors, u).examined
    /\ scraped' = "products"
    /\ UNCHANGED page

\* scraper.scrape_page_info(BASE_URL)
ScrapePageInfo(resp) ==
    /\ scraped = "none"
    /\ CallPageInfo(BASE_URL, resp)
    /\ ScrapeOnly

\* scraper.scrape_products_generic(BASE_URL)
ScrapeProducts(resp) ==
    /\ scraped = "none"
    /\ CallProducts(BASE_URL, resp)
    /\ ScrapeOnly

NextScrape ==
    \/ \E resp \in Responses : ScrapePageInfo(resp)
    \/ \E resp \in Responses : ScrapeProducts(resp)

\* The scraper has not been called.
ScrapeUnused ==
    /\ page = <<>>
    /\ fetches = 0
    /\ response = [kind |-> "none", status |-> 0]
    /\ result = NoResult
    /\ examined = <<>>
    /\ scraped = "none"

(***************************************************************************)
(* The Flask application (app.py) and the hook of SecurityMiddleware       *)
(* (middleware.py).  A request is answered in one step: the hooks installed *)
(* on the app run first, then the view, which calls the scraper.           *)
(***************************************************************************)
MaxRequests == 2

\* request.get_json(): the JSON value of the body
JNull == [type |-> "null", members |-> <<>>, items |-> <<>>]
JObject(members) == [type |-> "object", members |-> members, items |-> <<>>]
JArray(items) == [type |-> "array", members |-> <<>>, items |-> items]

\* The urls of the requests: empty, without scheme and netloc, with a scheme
\* only, with a netloc only, a safe one and one of a denylisted host.
RequestUrls ==
    { <<>>,
      INVALID_URL,
      HTTP \o <<":">> \o PATH_PAGE,
      <<"/", "/">> \o EXAMPLE_COM \o PATH_PAGE,
      HTTPS \o <<":", "/", "/">> \o EXAMPLE_COM \o PATH_PAGE,
      HTTP \o <<":", "/", "/">> \o MALWARE_COM \o PATH_PAGE }

Bodies ==
    { JNull, JObject(<<>>), JObject("other" :> HTTP), JArray(<<>>), JArray(<<"url">>) }
    \cup {JObject("url" :> u) : u \in RequestUrls}

ScrapeEndpoints == {"scrape_page", "scrape_products"}

\* The pages the requested urls serve.
AppPages ==
    {<<>>,
     <<[fragment |-> CardFragment, count |-> 1]>>,
     <<[fragment |-> BrokenFragment, count |-> 1]>>}

\* bool(data)
Truthy(data) ==
    \/ data.type = "object" /\ DOMAIN data.members # {}
    \/ data.type = "array" /\ data.items # <<>>

\* 'url' in data: a key of a dict, an item of a list
HasUrl(data) ==
    IF data.type = "object" THEN "url" \in DOMAIN data.members
    ELSE \E k \in 1..Len(data.items) : data.items[k] = "url"

\* jsonify(...), code
Reply(code, json) == [code |-> code, json |-> json]

\* No reply: the request goes on.
Pass == Reply(0, [status |-> "none"])

UrlRequired == Reply(400, [error |-> "URL is required", status |-> "error"])
InvalidUrl == Reply(400, [error |-> "Invalid URL", status |-> "error"])
InternalError == Reply(500, [error |-> "Internal server error", status |-> "error"])
RateLimited == Reply(429, [error |-> "Rate limit exceeded", status |-> "error"])
NotAllowed == Reply(403, [error |-> "URL not allowed", status |-> "error"])

\* if not parsed_url.scheme or not parsed_url.netloc: the negation
HasSchemeAndNetloc(parsed) == parsed.scheme # <<>> /\ parsed.netloc # <<>>

\* The view up to the call of the scraper.  data['url'] of a list raises
\* TypeError, which the view's except Exception answers.
Validate(data) ==
    IF ~Truthy(data) \/ ~HasUrl(data) THEN UrlRequired
    ELSE IF data.type # "object" THEN InternalError
    ELSE IF ParseRaises(data.members["url"]) THEN InternalError
    ELSE IF ~HasSchemeAndNetloc(UrlParse(data.members["url"])) THEN InvalidUrl
    ELSE Pass

\* SecurityMiddleware.before_request, allowed being what
\* self.rate_limiter.is_allowed(client_ip) returned.  The hook has no except:
\* Flask answers 500 to the TypeError of data['url'].
before_request(endpoint, data, allowed) ==
    IF ~allowed.ok
    THEN [reply |-> RateLimited, events |-> <<"is_allowed">>]
    ELSE IF endpoint \in ScrapeEndpoints /\ Truthy(data) /\ HasUrl(data)
         THEN IF data.type # "object"
              THEN [reply |-> InternalError, events |-> <<"is_allowed">>]
              ELSE IF ~is_safe_url(data.members["url"])
                   THEN [reply |-> NotAllowed, events |-> <<"is_allowed", "is_safe_url">>]
                   ELSE [reply |-> Pass, events |-> <<"is_allowed", "is_safe_url">>]
         ELSE [reply |-> Pass, events |-> <<"is_allowed">>]

\* Flask runs the hooks installed on the app before the view; a hook that
\* returns a reply ends the request.
Preprocess(funcs, endpoint, data, allowed) ==
    IF funcs = <<>> THEN [reply |-> Pass, events |-> <<>>]
    ELSE before_request(endpoint, data, allowed)

\* The request is answered.
Answer(endpoint, data, ip, reply, events) ==
    history' = Append(history, [endpoint |-> endpoint, data |-> data, remote_addr |-> ip,
                                reply |-> reply, events |-> events])

\* scrape_page / scrape_products from the validation on: checked is what the
\* validation answered.
View(endpoint, data, ip, resp, events, checked) ==
    IF checked.code # 0
    THEN /\ Answer(endpoint, data, ip, checked, events)
         /\ UNCHANGED scrapeVars
    ELSE /\ IF endpoint = "scrape_page"
            THEN CallPageInfo(data.members["url"], resp)
            ELSE CallProducts(data.members["url"], resp)
         /\ Answer(endpoint, data, ip,
                   IF result'.status = "raised" THEN InternalError
                   ELSE Reply(IF result'.status = "error" THEN 500 ELSE 200, result'),
                   Append(events, "fetch"))

\* The view runs unless a hook has answered.
Route(endpoint, data, ip, resp, pre) ==
    IF pre.reply.code # 0
    THEN /\ Answer(endpoint, data, ip, pre.reply, pre.events)
         /\ UNCHANGED scrapeVars
    ELSE View(endpoint, data, ip, resp, pre.events, Validate(data))

\* A request to an endpoint: the hooks, with the limiter of the middleware,
\* then the view.
Serve(endpoint, data, ip, resp, allowed) ==
    /\ IF before_request_funcs # <<>>
       THEN requests' = allowed.requests /\ blocked_ips' = allowed.blocked_ips
       ELSE UNCHANGED <<requests, blocked_ips>>
    /\ Route(endpoint, data, ip, resp,
             Preprocess(before_request_funcs, endpoint, data, allowed))

\* POST /scrape
scrape_page(data, ip, resp) ==
    /\ Len(history) < MaxRequests
    /\ Serve("scrape_page", data, ip, resp,
             is_allowed(ip, DefaultLimit, DefaultWindow, now, requests, blocked_ips))
    /\ AppOnly

\* POST /scrape/products
scrape_products(data, ip, resp) ==
    /\ Len(history) < MaxRequests
    /\ Serve("scrape_products", data, ip, resp,
             is_allowed(ip, DefaultLimit, DefaultWindow, now, requests, blocked_ips))
    /\ AppOnly

NextApp ==
    \/ \E data \in Bodies, ip \in Identifiers, resp \in Responses :
          scrape_page(data, ip, resp)
    \/ \E data \in Bodies, ip \in Identifiers, resp \in Responses :
          scrape_products(data, ip, resp)

\* app = Flask(__name__), scraper = WebScraper()
InitApp ==
    /\ history = <<>>
    /\ page \in AppPages
    /\ fetches = 0
    /\ response = [kind |-> "none", status |-> 0]
    /\ result = NoResult
    /\ examined = <<>>
    /\ scraped = "none"

\* No app has been made.
AppUnused ==
    /\ before_request_funcs = <<>>
    /\ history = <<>>

(***************************************************************************)
(* The specifications, one per component.                                  *)
(***************************************************************************)
InitOfLimiter == InitLimiter /\ UrlUnused /\ ScrapeUnused /\ AppUnused
SpecLimiter == InitOfLimiter /\ [][NextLimiter]_vars

SpecThreads == InitOfLimiter /\ [][NextThreads]_vars

\* Every identifier keeps calling while time keeps advancing.
SpecCalling == InitOfLimiter /\ [][NextCalling]_vars /\ KeepsGoing

InitOfUrl == InitUrl /\ LimiterConstructed /\ ScrapeUnused /\ AppUnused
SpecUrl == InitOfUrl /\ [][NextUrl]_vars

InitOfScrape == InitScrape /\ LimiterConstructed /\ UrlUnused /\ AppUnused
SpecScrape == InitOfScrape /\ [][NextScrape]_vars

\* app.py as it is: no hook is installed on the app.
InitOfApp == InitApp /\ before_request_funcs = <<>> /\ LimiterConstructed /\ UrlUnused
SpecApp == InitOfApp /\ [][NextApp]_vars

\* An app on which SecurityMiddleware(app) has been constructed.
InitOfGoverned ==
    InitApp /\ before_request_funcs = <<"before_request">> /\ LimiterConstructed /\ UrlUnused
SpecGoverned == InitOfGoverned /\ [][NextApp]_vars

(***************************************************************************)
(* Claims about the rate limiter (SpecLimiter)                             *)
(***************************************************************************)
\* The calls made for one identifier, in the order they were made.
CallsOf(id) == SelectSeq(calls, LAMBDA c : c.id = id)

\* The first k calls for an identifier pass one window and lie within it.
WithinOneWindow(s, k) ==
    /\ \A i \in 1..k : s[i].window = s[1].window
    /\ s[k].t - s[1].t <= s[1].window

\* C1: starting from no history, the first limit calls for an identifier made
\* within window seconds are all allowed and the (limit+1)-th made within the
\* same window is denied, whatever is called for other identifiers in between.
C1_LimitCallsThenDeny ==
    \A id \in Identifiers :
        LET s == CallsOf(id) IN
        \A k \in 1..Len(s) :
            WithinOneWindow(s, k) =>
                /\ (k <= limit => s[k].ok)
                /\ (k = limit + 1 => ~s[k].ok)

\* The (limit+1)-th call of ip1 within the window was denied, with a call of
\* ip2 made between two calls of ip1.
C1_Witness ==
    LET s == CallsOf("ip1") IN
    /\ Len(s) = limit + 1
    /\ WithinOneWindow(s, limit + 1)
    /\ \A k \in 1..limit : s[k].ok
    /\ ~s[limit + 1].ok
    /\ \E i, j \in 1..Len(calls) :
          i < j /\ j < Len(calls) /\ calls[i].id = "ip1" /\ calls[j].id = "ip2"

\* C2: once a call has been denied for reaching the limit at time t, every
\* later call for that identifier made before t + 3600 is denied, whatever
\* window it passes.
C2_DeniedForTheBlockDuration ==
    \A i, j \in 1..Len(calls) :
        ( /\ i < j
          /\ calls[i].id = calls[j].id
          /\ calls[i].why = "limit"
          /\ calls[j].t < calls[i].t + 3600 )
        => ~calls[j].ok

\* A call denied during the block although its window is so short that every
\* counted timestamp has aged out of it.
C2_Witness ==
    \E i, j \in 1..Len(calls) :
        /\ i < j
        /\ calls[i].id = calls[j].id
        /\ calls[i].why = "limit"
        /\ calls[j].t < calls[i].t + 3600
        /\ calls[j].why = "blocked"
        /\ \A k \in 1..(j - 1) :
              (calls[k].id = calls[j].id /\ calls[k].ok)
                  => calls[j].t - calls[k].t > calls[j].window

(***************************************************************************)
(* Claims about concurrent calls (SpecThreads)                             *)
(***************************************************************************)
\* The admitted calls for the identifier of call c made in the window
\* seconds up to c.
AdmittedInWindow(c) ==
    {i \in 1..Len(calls) :
        /\ calls[i].id = c.id
        /\ calls[i].ok
        /\ calls[i].t <= c.t
        /\ c.t - calls[i].t <= c.window}

\* C3: concurrent calls of is_allowed for one identifier behave as if evict,
\* count check and append were one atomic step: with one window passed by all
\* its calls, the admitted calls in any window never exceed limit.
C3_AdmittedNeverExceedLimit ==
    \A id \in Identifiers :
        LET s == CallsOf(id) IN
        (\A i \in 1..Len(s) : s[i].window = s[1].window) =>
            \A i \in 1..Len(s) :
                s[i].ok => Cardinality(AdmittedInWindow(s[i])) <= limit

(***************************************************************************)
(* Claims about the URL safety check (SpecUrl)                             *)
(***************************************************************************)
\* C5: is_safe_url returns True exactly when the scheme of the URL is http or
\* https, its host is not on the denylist and its path holds none of the
\* suspicious substrings, all three compared without case: a denylisted host
\* is rejected whatever the scheme, port, userinfo or path.
C5_SafeIffSchemeHostPath ==
    verdict # "unchecked" =>
        ( verdict = "safe" <=>
            /\ Lower(parts.scheme) \in {HTTP, HTTPS}
            /\ Lower(parts.host) \notin suspicious_domains
            /\ \A pattern \in suspicious_patterns :
                  ~IsSubstring(pattern, Lower(parts.path)) )

(***************************************************************************)
(* Claims about the scraper (SpecScrape)                                   *)
(***************************************************************************)
\* The fetch failed in transport: no connection, no answer in time, or a
\* status that is not 2xx.
TransportFailure(resp) ==
    \/ resp.kind \in {"ConnectionError", "Timeout"}
    \/ resp.kind = "response" /\ ~(200 <= resp.status /\ resp.status < 300)

ErrorFields == {"url", "error", "status", "scraped_at"}
PageInfoFields ==
    {"url", "title", "description", "images", "links", "headings", "scraped_at", "status"}
ProductsFields == {"url", "products", "total_found", "scraped_at", "status"}

PayloadFields(which) == IF which = "page_info" THEN PageInfoFields ELSE ProductsFields

\* C6: for both scrape functions a transport failure of the fetch (no
\* connection, timeout, or a status that is not 2xx) gives exactly one fetch
\* and a failure result with url, scraped_at, status 'error' and the error
\* message and none of the payload; a success result carries the payload and
\* no error; the fetch is never retried.
C6_FailureIsTerminalAndExclusive ==
    scraped # "none" =>
        /\ fetches = 1
        /\ TransportFailure(response) =>
              /\ DOMAIN result = ErrorFields
              /\ result.status = "error"
              /\ result.url = BASE_URL
              /\ result.scraped_at = IsoFormat(now)
        /\ result.status = "success" =>
              /\ DOMAIN result = PayloadFields(scraped)
              /\ result.url = BASE_URL
              /\ result.scraped_at = IsoFormat(now)

\* A string: a finite sequence of characters.
IsText(s) == DOMAIN s = 1..Len(s) /\ \A k \in 1..Len(s) : s[k] \in STRING

\* The examined elements that have a name and whose extraction does not end
\* in an exception.
Named(doc, elements) ==
    SelectSeq(elements, LAMBDA e : /\ FindName(doc, e, name_selectors) # <<>>
                                   /\ ~ExtractRaises(doc, e, BASE_URL))

\* A products result was returned for a fetched page.
ProductsReturned == scraped = "products" /\ result.status = "success"

\* C8: in every result of scrape_products_generic each product has a
\* non-empty name, a candidate without a name being dropped and not emitted;
\* price, image and link are strings; total_found is the length of products,
\* which is at most 10.
C8_ProductsAreNamed ==
    ProductsReturned =>
        /\ \A k \in 1..Len(result.products) :
              /\ DOMAIN result.products[k] = {"name", "price", "image", "link"}
              /\ result.products[k].name # <<>>
              /\ IsText(result.products[k].name)
              /\ IsText(result.products[k].price)
              /\ IsText(result.products[k].image)
              /\ IsText(result.products[k].link)
        /\ Len(result.products) = Len(Named(Document(page), examined))
        /\ result.total_found = Len(result.products)
        /\ Len(result.products) <= 10

\* Ten candidates were examined, some were dropped for lacking a name and
\* some were kept.
C8_Witness ==
    /\ ProductsReturned
    /\ Len(examined) = 10
    /\ Len(result.products) > 0
    /\ Len(result.products) < Len(examined)
    /\ result.total_found = Len(result.products)

\* The selectors of the list that match an element of the document.
Matching(doc) ==
    {k \in 1..Len(product_selectors) : Select(doc, product_selectors[k]) # <<>>}

\* The elements that match selector k and have fewer than n matches before
\* them in the document.
FirstMatches(doc, k, n) ==
    {j \in 1..Len(doc) :
        /\ MatchesSelector(doc, j, product_selectors[k])
        /\ Cardinality({i \in 1..(j - 1) :
                           MatchesSelector(doc, i, product_selectors[k])}) < n}

Increasing(s) == \A i, j \in 1..Len(s) : i < j => s[i] < s[j]

Range(s) == {s[k] : k \in 1..Len(s)}

\* C9: the candidates come from one selector, the first of the list that
\* matches an element; matches of later selectors are not merged in, later
\* selectors are not tried when every candidate is dropped, and the first 10
\* matches in document order are the ones examined.
C9_OneSelectorFirstTen ==
    ProductsReturned =>
        LET doc == Document(page) IN
        IF Matching(doc) = {}
        THEN examined = <<>> /\ result.products = <<>>
        ELSE /\ Increasing(examined)
             /\ Range(examined) = FirstMatches(doc, Min(Matching(doc)), 10)
             /\ \A k \in 1..Len(result.products) :
                   result.products[k] =
                       extract_product_info(doc, Named(doc, examined)[k], BASE_URL)

\* The first selector matched more than 10 elements, the 10 examined all
\* lacked a name, and a later selector matches an element that has one.
C9_Witness ==
    /\ ProductsReturned
    /\ Len(Select(Document(page), product_selectors[1])) > 10
    /\ Len(examined) = 10
    /\ result.products = <<>>
    /\ \E j \in Range(Select(Document(page), product_selectors[4])) :
          FindName(Document(page), j, name_selectors) # <<>>

\* The text of the first element below element i that selector sel matches
\* holds a price.
HoldsPrice(doc, i, sel) ==
    /\ SelectOne(doc, i, sel) # 0
    /\ PriceSearch(Strip(GetText(doc, SelectOne(doc, i, sel)))).found

\* The selectors of the price list that find an element below element i.
Finding(doc, i) ==
    {k \in 1..Len(price_selectors) : SelectOne(doc, i, price_selectors[k]) # 0}

\* The selectors of the price list that find an element holding a price.
Pricing(doc, i) ==
    {k \in 1..Len(price_selectors) : HoldsPrice(doc, i, price_selectors[k])}

\* The element the price selector list finds first below element i.
PriceElement(doc, i) == SelectOne(doc, i, price_selectors[Min(Finding(doc, i))])

\* The price of the product made of the k-th named candidate.
PriceOf(k) == result.products[k].price

\* C10 as stated: when the element found by the price selector list holds no
\* currency pattern, the price is empty, even if elements matched by later
\* selectors hold one.
C10_EmptyWhenFirstElementHoldsNone ==
    ProductsReturned =>
        LET doc == Document(page) IN
        \A k \in 1..Len(result.products) :
            LET i == Named(doc, examined)[k] IN
            ( /\ Finding(doc, i) # {}
              /\ ~PriceSearch(Strip(GetText(doc, PriceElement(doc, i)))).found )
            => PriceOf(k) = <<>>

\* C10, amended: the price is the match in the element found by the first
\* selector of the price list whose element holds a currency pattern, and it
\* is empty only when no selector finds such an element.
C10_PriceOfFirstElementHoldingOne ==
    ProductsReturned =>
        LET doc == Document(page) IN
        \A k \in 1..Len(result.products) :
            LET i == Named(doc, examined)[k] IN
            IF Pricing(doc, i) = {} THEN PriceOf(k) = <<>>
            ELSE /\ PriceOf(k) # <<>>
                 /\ PriceOf(k) =
                       PriceSearch(Strip(GetText(doc,
                           SelectOne(doc, i, price_selectors[Min(Pricing(doc, i))])))).text

\* A product whose first price element holds no pattern and whose price was
\* taken from the element of a later selector.
C10_Witness ==
    /\ ProductsReturned
    /\ \E k \in 1..Len(result.products) :
          LET i == Named(Document(page), examined)[k] IN
          /\ Pricing(Document(page), i) # {}
          /\ Min(Finding(Document(page), i)) < Min(Pricing(Document(page), i))
          /\ PriceOf(k) # <<>>

(***************************************************************************)
(* Claims about the application (SpecApp)                                  *)
(***************************************************************************)
\* The scraper was called, and fetched, for the request.
Fetched(h) == \E k \in 1..Len(h.events) : h.events[k] = "fetch"

\* C4: every scrape request is checked by the rate limiter first, then by
\* the URL safety check, and only then handed to an extractor; a request
\* answered 429 or 403 causes no fetch.
C4_ChecksBeforeFetch ==
    \A n \in 1..Len(history) :
        LET e == history[n].events IN
        /\ e # <<>> /\ e[1] = "is_allowed"
        /\ \A f \in 1..Len(e) :
              e[f] = "fetch" =>
                  \E i, j \in 1..Len(e) :
                      i < j /\ j < f /\ e[i] = "is_allowed" /\ e[j] = "is_safe_url"
        /\ history[n].reply.code \in {429, 403} => ~Fetched(history[n])

\* The body is empty or has no 'url' key.
NoUrlKey(data) == data.type # "object" \/ "url" \notin DOMAIN data.members

\* The url of the body has no scheme or no network location.
UrlLacksSchemeOrNetloc(data) ==
    /\ ~NoUrlKey(data)
    /\ \/ UrlParse(data.members["url"]).scheme = <<>>
       \/ UrlParse(data.members["url"]).netloc = <<>>

\* C7: a POST to /scrape or /scrape/products whose JSON body is empty or has
\* no 'url' key is answered 400 with error 'URL is required', one whose url
\* has no scheme or no network location is answered 400 with status 'error',
\* and in both cases the scraper is not called and nothing is fetched.
C7_BadRequestsAnswered400 ==
    /\ \A n \in 1..Len(history) :
          LET h == history[n] IN
          /\ NoUrlKey(h.data) =>
                /\ h.reply.code = 400
                /\ h.reply.json.error = "URL is required"
                /\ ~Fetched(h)
          /\ UrlLacksSchemeOrNetloc(h.data) =>
                /\ h.reply.code = 400
                /\ h.reply.json.status = "error"
                /\ ~Fetched(h)
    /\ fetches = Cardinality({n \in 1..Len(history) : Fetched(history[n])})

(***************************************************************************)
(* Claims about the extracted price (SpecScrape)                           *)
(***************************************************************************)
\* A currency symbol: $ after up to three letters, or one of the other signs.
IsCurrencySymbol(s) ==
    \/ Len(s) = 1 /\ s[1] \in CurrencySigns
    \/ /\ Len(s) \in 1..4
       /\ s[Len(s)] = "$"
       /\ \A k \in 1..(Len(s) - 1) : IsAlpha(s[k])

\* A numeric amount: digits with dots and commas between them.
IsNumericAmount(s) ==
    /\ s # <<>>
    /\ \A k \in 1..Len(s) : s[k] \in AmountChars
    /\ s[1] \in DigitChars
    /\ s[Len(s)] \in DigitChars

\* A currency symbol, then the amount, white space at most between them.
IsSymbolThenAmount(p) ==
    \E i \in 1..Len(p) :
        /\ IsCurrencySymbol(SubSeq(p, 1, i))
        /\ IsNumericAmount(LStrip(SubSeq(p, i + 1, Len(p))))

\* C11: a price that was extracted is exactly the currency symbol followed by
\* the numeric amount: text and punctuation that follow the amount are not
\* part of it.
C11_PriceIsSymbolThenAmount ==
    ProductsReturned =>
        \A k \in 1..Len(result.products) :
            PriceOf(k) # <<>> => IsSymbolThenAmount(PriceOf(k))

(***************************************************************************)
(* Claims about the page information (SpecScrape)                          *)
(***************************************************************************)
\* A page-info result was returned for a fetched page.
PageInfoReturned == scraped = "page_info" /\ result.status = "success"

\* The elements of a tag that carry an attribute.
Carrying(doc, tag, a) ==
    {j \in 1..Len(doc) : doc[j].tag = tag /\ a \in DOMAIN doc[j].attrs}

\* The k-th element of a set of elements, in document order.
Nth(S, k) == CHOOSE j \in S : Cardinality({i \in S : i < j}) = k - 1

Smaller(a, b) == IF a < b THEN a ELSE b

\* C12: the images of scrape_page_info are the first min(10, n) of the n img
\* elements that carry a src, the links the first min(20, m) of the m anchors
\* that carry an href, both in document order.
C12_FirstTenImagesTwentyLinks ==
    PageInfoReturned =>
        LET doc == Document(page)
            imgs == Carrying(doc, "img", "src")
            anchors == Carrying(doc, "a", "href")
        IN  /\ Len(result.images) = Smaller(10, Cardinality(imgs))
            /\ Len(result.links) = Smaller(20, Cardinality(anchors))
            /\ \A k \in 1..Len(result.images) :
                  /\ result.images[k].url = UrlJoin(BASE_URL, doc[Nth(imgs, k)].attrs["src"])
                  /\ result.images[k].alt = AttrValue(doc[Nth(imgs, k)], "alt")
            /\ \A k \in 1..Len(result.links) :
                  /\ result.links[k].url = UrlJoin(BASE_URL, doc[Nth(anchors, k)].attrs["href"])
                  /\ result.links[k].text = Strip(GetText(doc, Nth(anchors, k)))

\* A page with more than 10 images and more than 20 links, cut to 10 and 20.
C12_Witness ==
    /\ PageInfoReturned
    /\ Cardinality(Carrying(Document(page), "img", "src")) > 10
    /\ Cardinality(Carrying(Document(page), "a", "href")) > 20
    /\ Len(result.images) = 10
    /\ Len(result.links) = 20

\* The heading elements of a level, and those of the levels before it.
HeadingsAt(doc, level) == {j \in 1..Len(doc) : doc[j].tag = HeadingTags[level]}

HeadingsBefore(doc, level) ==
    {j \in 1..Len(doc) : \E l \in 1..(level - 1) : doc[j].tag = HeadingTags[l]}

\* C13: the headings of scrape_page_info are ordered by level first and by
\* place in the document second; each h1..h6 element appears once and the
\* list is not cut.
C13_HeadingsByLevelThenPlace ==
    PageInfoReturned =>
        LET doc == Document(page) IN
        /\ Len(result.headings) = Cardinality(HeadingsBefore(doc, 7))
        /\ \A level \in 1..6 :
              \A n \in 1..Cardinality(HeadingsAt(doc, level)) :
                  result.headings[Cardinality(HeadingsBefore(doc, level)) + n] =
                      [level |-> level,
                       text |-> Strip(GetText(doc, Nth(HeadingsAt(doc, level), n)))]
        /\ \A i, j \in 1..Len(result.headings) :
              i < j => result.headings[i].level <= result.headings[j].level

\* A page with more than 20 headings where an h2 comes before an h1: the h1
\* is listed first.
C13_Witness ==
    /\ PageInfoReturned
    /\ Len(result.headings) > 20
    /\ \E i \in HeadingsAt(Document(page), 2), j \in HeadingsAt(Document(page), 1) : i < j
    /\ result.headings[1].level = 1

(***************************************************************************)
(* C14: whenever the fetch succeeds, scrape_page_info returns a success    *)
(* result whatever the markup: without a title element the title is the    *)
(* placeholder title, without a description meta element the description   *)
(* is the placeholder description, and no markup produces an error result  *)
(* or an exception.                                                        *)
(***************************************************************************)
HasTitle(doc) == \E j \in 1..Len(doc) : doc[j].tag = "title"

HasDescription(doc) ==
    \E j \in 1..Len(doc) : /\ doc[j].tag = "meta"
                            /\ "name" \in DOMAIN doc[j].attrs
                            /\ doc[j].attrs["name"] = S_DESCRIPTION

C14_SuccessWhateverTheMarkup ==
    scraped = "page_info" /\ ~FetchRaises(response) =>
        /\ result.status = "success"
        /\ ~HasTitle(Document(page)) => result.title = SEM_TITULO
        /\ ~HasDescription(Document(page)) => result.description = NO_DESCRIPTION

\* What does hold: a page on which no join raises is a success, with the
\* placeholders for what it lacks.
C14_SuccessUnlessJoinRaises ==
    scraped = "page_info" /\ ~FetchRaises(response) =>
        IF PageRaises(Document(page), BASE_URL)
        THEN result = Raised("ValueError")
        ELSE /\ result.status = "success"
             /\ ~HasTitle(Document(page)) => result.title = SEM_TITULO
             /\ ~HasDescription(Document(page)) => result.description = NO_DESCRIPTION

(***************************************************************************)
(* More claims about the rate limiter (SpecLimiter)                        *)
(***************************************************************************)
\* A call of is_allowed has just returned: it is the last of the log.
Called == Len(calls') = Len(calls) + 1

TheCall == calls'[Len(calls')]

\* The timestamps of the history of c.id, before the call c, that lie within
\* the window of c.
InWindow(c) ==
    {k \in 1..Len(History(requests, c.id)) :
        c.t - History(requests, c.id)[k] <= c.window}

\* Before the call c its identifier has a block whose time has been reached.
BlockExpired(c) == c.id \in DOMAIN blocked_ips /\ c.t >= blocked_ips[c.id]

\* C15: a call for an identifier whose block-until time has been reached
\* (now >= blockUntil) removes the block and is decided by eviction and the
\* count check alone: it is allowed iff fewer than limit timestamps remain
\* within the window, and the identifier is blocked afterwards only if the
\* count check fails, with a fresh block-until of now + 3600.
C15_ExpiredBlockIsCleared ==
    [][ Called /\ BlockExpired(TheCall) =>
          /\ TheCall.ok <=> Cardinality(InWindow(TheCall)) < TheCall.limit
          /\ TheCall.ok => TheCall.id \notin DOMAIN blocked_ips'
          /\ ~TheCall.ok => /\ TheCall.id \in DOMAIN blocked_ips'
                            /\ blocked_ips'[TheCall.id] = TheCall.t + 3600
                            /\ TheCall.why = "limit" ]_vars

\* A call made when the block of its identifier had expired failed the count
\* check again (its window is longer than the block) and set a fresh block.
C15_Witness ==
    \E i, j \in 1..Len(calls) :
        /\ i < j /\ j = Len(calls)
        /\ calls[i].id = calls[j].id
        /\ calls[i].why = "limit" /\ calls[j].why = "limit"
        /\ calls[j].t >= calls[i].t + 3600
        /\ blocked_ips[calls[j].id] = calls[j].t + 3600
        /\ calls[j].window > 3600

\* h is what is left of g after dropping some of its oldest timestamps.
IsSuffix(h, g) ==
    /\ Len(h) <= Len(g)
    /\ \A k \in 1..Len(h) : h[k] = g[Len(g) - Len(h) + k]

\* Before the call c its identifier is blocked: now < blockUntil.
BlockedNow(c) == c.id \in DOMAIN blocked_ips /\ c.t < blocked_ips[c.id]

\* C16: a denied call never appends a timestamp to the history of its
\* identifier, and a call made while the identifier is blocked
\* (now < blockUntil) is denied and leaves the whole limiter state unchanged:
\* no history is evicted or extended and no blockUntil is pushed forward.
C16_DeniedCallsAddNothing ==
    [][ Called =>
          /\ ~TheCall.ok =>
                /\ IsSuffix(History(requests', TheCall.id), History(requests, TheCall.id))
                /\ \A id \in Identifiers \ {TheCall.id} :
                      History(requests', id) = History(requests, id)
          /\ BlockedNow(TheCall) =>
                /\ ~TheCall.ok
                /\ requests' = requests
                /\ blocked_ips' = blocked_ips ]_vars

\* Two calls were made at different times during one block, the last with a
\* window that the oldest timestamp of the history has left: the history
\* still holds it and the block still ends 3600 after the denial that set it.
C16_Witness ==
    \E i, j, k \in 1..Len(calls) :
        /\ i < j /\ j < k /\ k = Len(calls)
        /\ calls[i].id = calls[k].id /\ calls[j].id = calls[k].id
        /\ calls[i].why = "limit"
        /\ calls[j].why = "blocked" /\ calls[k].why = "blocked"
        /\ calls[j].t < calls[k].t
        /\ blocked_ips[calls[k].id] = calls[i].t + 3600
        /\ History(requests, calls[k].id) # <<>>
        /\ calls[k].t - Head(History(requests, calls[k].id)) > calls[k].window

\* The times of the admitted calls of a log, in the order of the calls.
AdmittedTimes(s) == [k \in 1..Len(SelectSeq(s, LAMBDA c : c.ok)) |->
                        SelectSeq(s, LAMBDA c : c.ok)[k].t]

NonDecreasing(h) == \A a, b \in 1..Len(h) : a <= b => h[a] <= h[b]

\* All calls of the log passed one window.
OneWindow(s) == \A i \in 1..Len(s) : s[i].window = s[1].window

\* The admitted calls of the log s made in the window seconds that start
\* with call i.
AdmittedInSpan(s, i) ==
    {j \in 1..Len(s) : s[j].ok /\ s[i].t <= s[j].t /\ s[j].t <= s[i].t + s[i].window}

\* C17: after any sequence of calls made with a fixed limit and window under
\* a non-decreasing clock, the history of each identifier is a non-decreasing
\* sequence of at most limit timestamps, each the time of an admitted call
\* (the latest admitted calls, in their order); and no more than limit calls
\* are admitted for one identifier inside any span of window seconds.
C17_HistoryBoundsAdmissions ==
    \A id \in Identifiers :
        LET s == CallsOf(id)
            h == History(requests, id)
        IN  OneWindow(s) =>
                /\ NonDecreasing(h)
                /\ Len(h) <= limit
                /\ IsSuffix(h, AdmittedTimes(s))
                /\ \A i \in 1..Len(s) :
                      s[i].ok => Cardinality(AdmittedInSpan(s, i)) <= limit

\* An identifier was admitted, was denied by the count check exactly window
\* seconds later, when its timestamp was just inside the window, and was
\* admitted again after the block: its history is full and holds the time of
\* the last admitted call only.
C17_Witness ==
    LET s == CallsOf("ip1")
        h == History(requests, "ip1")
    IN  /\ Len(s) >= 3
        /\ OneWindow(s)
        /\ \E i, j, k \in 1..Len(s) :
              /\ i < j /\ j < k /\ k = Len(s)
              /\ s[i].ok /\ s[k].ok
              /\ s[j].why = "limit"
              /\ s[j].t - s[i].t = s[j].window
              /\ h = <<s[k].t>>
        /\ Len(h) = limit

(***************************************************************************)
(* Claims about callers that never stop (SpecCalling)                      *)
(***************************************************************************)
\* The latest call of an identifier.
LatestCalls(id) == SelectSeq(calls, LAMBDA c : c.id = id)

\* A denial after which the clock of the model can still run for the longest
\* window and one block.
LatestDenial == MaxLiveTime - (4 * TimeStep + BlockDuration)

DeniedLast(id) ==
    /\ LatestCalls(id) # <<>>
    /\ ~LatestCalls(id)[1].ok
    /\ LatestCalls(id)[1].t <= LatestDenial

AllowedLast(id) == LatestCalls(id) # <<>> /\ LatestCalls(id)[1].ok

\* C18: with limit >= 1 no identifier is denied forever: if time keeps
\* advancing and the identifier keeps calling, after any denial some later
\* call is allowed, whatever the windows, longer than the block included.
C18_NoIdentifierDeniedForever ==
    \A id \in Callers : DeniedLast(id) ~> AllowedLast(id)

\* An identifier was denied by the count check with a window longer than the
\* block: when the block expires its history is still full of timestamps
\* inside that window.
C18_Witness ==
    /\ DeniedLast("ip1")
    /\ LatestCalls("ip1")[1].why = "limit"
    /\ LatestCalls("ip1")[1].window > BlockDuration
    /\ "ip1" \in DOMAIN blocked_ips
    /\ Len(History(requests, "ip1")) = limit
    /\ blocked_ips["ip1"] - Head(History(requests, "ip1")) <= LatestCalls("ip1")[1].window

====
